---- MODULE Spec2Model ----
(***************************************************************************)
(* Model of src/main.py: the adaptive JPEG compression engine              *)
(* (compress_image) and the upload endpoint that calls it (upload_image).  *)
(*                                                                         *)
(* Python floats are IEEE-754 doubles.  The three float expressions that   *)
(* decide pixel dimensions (max_dimension / width * height, dim * 0.9 and  *)
(* the aspect arithmetic of Image.thumbnail) are modelled bit-exactly with *)
(* integer arithmetic: the rounding error of a double quotient p/q is      *)
(* r / (q * 2^s) for a small integer r, which is all that is needed to     *)
(* decide the places where the double result differs from the exact one.   *)
(***************************************************************************)
EXTENDS Integers, Sequences, FiniteSets, TLC

(***************************************************************************)
(* Bounds of the model.                                                    *)
(***************************************************************************)
\* decoded images of every size 1..MaxSide x 1..MaxSide are tried
MaxSide == 6
\* every max_dimension in 0..MaxDim is tried
MaxDim == 5
\* the encoder's output is never larger than the raw RGB pixels plus a header
RawBytesPerPixel == 3
JpegHeaderBytes == 1024
\* one step of 5 in quality, or the 0.9 shrink of the buffer, changes the
\* encoded size by at most this factor
StepGain == 2

(***************************************************************************)
(* Program constants.                                                      *)
(***************************************************************************)
\* "150 * 1024": the hard ceiling of the reduction loop and of DimShrink
Ceiling == 150 * 1024
\* "quality -= 5"
QualityStep == 5
\* "min(quality + 10, max_quality)"
BoostStep == 10
\* defaults of compress_image's parameters
DefaultMaxDimension == 500
DefaultTargetSizeKb == 100
DefaultMinQuality == 75
DefaultMaxQuality == 90
\* mantissa bits below the leading one of a Python float (IEEE-754 double)
MantissaBits == 52

Calls == {"c1", "c2"}
None == "none"

(***************************************************************************)
(* Python float arithmetic on small integers.                              *)
(***************************************************************************)
Pow2(n) == IF n <= 0 THEN 1 ELSE 2 ^ n

RECURSIVE Log2Up(_, _, _)
Log2Up(p, q, e) == IF q * Pow2(e + 1) <= p THEN Log2Up(p, q, e + 1) ELSE e

RECURSIVE Log2Down(_, _, _)
Log2Down(p, q, k) == IF p * Pow2(k) >= q THEN -k ELSE Log2Down(p, q, k + 1)

\* the binary exponent of the double p / q: 2^e <= p/q < 2^(e+1)  (p, q >= 1;
\* 0 where there is no quotient to speak of)
Exponent(p, q) ==
    IF p < 1 \/ q < 1 THEN 0
    ELSE IF p >= q THEN Log2Up(p, q, 0) ELSE Log2Down(p, q, 1)

RECURSIVE PowMod(_, _)
\* 2^s mod q, by repeated squaring
PowMod(s, q) ==
    IF s = 0 THEN 1 % q
    ELSE LET half == PowMod(s \div 2, q)
         IN  IF s % 2 = 0 THEN (half * half) % q ELSE (2 * half * half) % q

\* The rounding error of the double quotient p / q (round to nearest), in
\* units of 1 / (q * 2^s) with s = MantissaBits - Exponent(p, q):
\*     float(p / q) = p/q + FloatDivErr(p, q) / (q * 2^s).
\* (A tie would need q to be a multiple of 2^(s+1); q is far smaller.)
FloatDivErr(p, q) ==
    IF p = 0 THEN 0
    ELSE LET s == MantissaBits - Exponent(p, q)
             t == (p * PowMod(s, q)) % q
         IN  IF 2 * t < q THEN -t ELSE q - t

\* the error of p / q rescaled to the common unit 1 / (q * 2^(MantissaBits - E))
ScaledErr(p, q, E) == FloatDivErr(p, q) * Pow2(Exponent(p, q) - E)

Abs(n) == IF n >= 0 THEN n ELSE -n
Min2(a, b) == IF a <= b THEN a ELSE b
Min3(a, b, c) == Min2(a, Min2(b, c))
Max2(a, b) == IF a >= b THEN a ELSE b

IsPow2(k) == \E e \in 0..30 : k = Pow2(e)

\* int((m / w) * h) for m >= 0, w >= 1, h >= 1: the double quotient m / w, the
\* double product with h, truncated.  Where m*h/w is not an integer the result is
\* its floor.  Where it is an integer k, the quotient's rounding error can leave
\* the product just below k, and int() then yields k - 1: that happens when the
\* error r is negative and |r| * h / (w * 2^s) exceeds half the spacing of the
\* doubles below k.
IntScale(m, w, h) ==
    IF m = 0 THEN 0
    ELSE LET k == (m * h) \div w
             r == FloatDivErr(m, w)
             d == Exponent(k, 1) - Exponent(m, w)
             lhs == (IF IsPow2(k) THEN 4 ELSE 2) * (-r) * h
         IN  IF (m * h) % w # 0 \/ r >= 0 THEN k
             ELSE IF d >= 0
                  THEN (IF lhs > w * Pow2(d) THEN k - 1 ELSE k)
                  ELSE (IF lhs * Pow2(-d) > w THEN k - 1 ELSE k)

\* int((max_dimension / side) * other); int() truncates toward zero and the
\* float operations are symmetric in sign
BoxDim(m, side, other) ==
    IF m >= 0 THEN IntScale(m, side, other) ELSE -IntScale(-m, side, other)

\* lines 47-55: the requested bounding box
BoxFlipped(m, size) ==
    IF size[1] <= size[2]
    THEN <<m, BoxDim(m, size[1], size[2])>>
    ELSE <<BoxDim(m, size[2], size[1]), m>>

Box(m, size) ==
    IF size[1] >= size[2]
    THEN <<m, BoxDim(m, size[1], size[2])>>
    ELSE <<BoxDim(m, size[2], size[1]), m>>

\* int(dim * 0.9): the double 0.9 is 0.9 * (1 + 2.47e-17), so the product rounds
\* to the integer 9*dim/10 when that is one and truncates to its floor otherwise
ShrinkDim(dim) == IF dim >= 0 THEN (9 * dim) \div 10 ELSE -((9 * (-dim)) \div 10)

\* line 74: tuple(int(dim * 0.9) for dim in max_dimensions)
ShrinkBox(box) == <<ShrinkDim(box[1]), ShrinkDim(box[2])>>

(***************************************************************************)
(* Image.thumbnail(size): the size the image has afterwards, or Err.       *)
(*   x, y = size                                                           *)
(*   if x >= width and y >= height: return                                 *)
(*   aspect = width / height                                               *)
(*   if x / y >= aspect:                                                   *)
(*       x = round_aspect(y * aspect, key=lambda n: abs(aspect - n / y))   *)
(*   else:                                                                 *)
(*       y = round_aspect(x / aspect,                                      *)
(*                 key=lambda n: 0 if n == 0 else abs(aspect - x / n))     *)
(*   round_aspect(number, key) =                                           *)
(*       max(min(floor(number), ceil(number), key=key), 1)                 *)
(*   resize((x, y)) raises unless x >= 1 and y >= 1.                       *)
(* min() returns its first argument unless the second has a strictly       *)
(* smaller key.  The two keys differ as doubles exactly as they differ as  *)
(* rationals unless the rationals are equal; then the rounding errors of   *)
(* the three quotients decide (the subtractions are exact).                *)
(***************************************************************************)
Err == <<0, 0>>

\* x = round_aspect(y * aspect, ...), for 1 <= x, 1 <= y, x/y >= w/h
RoundAspectX(y, w, h) ==
    LET f == (y * w) \div h
        c == IF (y * w) % h = 0 THEN f ELSE f + 1
        kf == w * y - f * h
        kc == c * h - w * y
        E == Min3(Exponent(w, h), Exponent(f, y), Exponent(c, y))
        floorWins == 2 * ScaledErr(w, h, E) * y
                       <= (ScaledErr(f, y, E) + ScaledErr(c, y, E)) * h
    IN  IF f = 0 THEN 1
        ELSE IF f = c \/ kf < kc THEN f
        ELSE IF kc < kf THEN c
        ELSE IF floorWins THEN f ELSE c

\* y = round_aspect(x / aspect, ...), for 1 <= x, 1 <= y, x/y < w/h
RoundAspectY(x, w, h) ==
    LET f == (x * h) \div w
        c == IF (x * h) % w = 0 THEN f ELSE f + 1
        kf == (x * h - w * f) * c
        kc == (w * c - x * h) * f
        E == Min3(Exponent(w, h), Exponent(x, f), Exponent(x, c))
        floorWins == ScaledErr(x, f, E) * h * c + ScaledErr(x, c, E) * h * f
                       <= 2 * ScaledErr(w, h, E) * f * c
    IN  IF f = 0 THEN 1
        ELSE IF f = c \/ kf < kc THEN f
        ELSE IF kc < kf THEN c
        ELSE IF floorWins THEN f ELSE c

\* img.resize(max_dimensions) in place of img.thumbnail(max_dimensions)
ThumbnailResize(box, size) ==
    IF box[1] < 1 \/ box[2] < 1 THEN Err ELSE box

\* img.resize((max_dimension, max_dimension)): the longer edge on both axes
ThumbnailSquare(box, size) ==
    IF box[1] < 1 \/ box[2] < 1 THEN Err
    ELSE <<Max2(box[1], box[2]), Max2(box[1], box[2])>>

Thumbnail(box, size) ==
    LET x == box[1]
        y == box[2]
        w == size[1]
        h == size[2]
    IN  IF x >= w /\ y >= h THEN size
        ELSE IF y = 0 THEN Err                  \* x / y: ZeroDivisionError
        ELSE IF x < 1 \/ y < 1 THEN Err         \* resize: ValueError
        ELSE IF x * h >= w * y
             THEN <<RoundAspectX(y, w, h), y>>
             ELSE <<x, RoundAspectY(x, w, h)>>

(***************************************************************************)
(* Inputs.                                                                 *)
(***************************************************************************)
\* a raw upload: its length, whether Image.open can decode it, and if so the
\* decoded size and mode
Raw(w, h, mode) == [ok |-> TRUE, w |-> w, h |-> h, mode |-> mode, len |-> w * h]
Garbage == [ok |-> FALSE, w |-> 0, h |-> 0, mode |-> None, len |-> 1]

GridImages == {Raw(w, h, "RGB") : w \in 1..MaxSide, h \in 1..MaxSide}
\* images large enough to encode above the ceiling: the sides of Scenario A
\* (2000x1000) and B (300x200) and sides around max_dimension = 500
LargeSides == {200, 300, 348, 480, 500, 876, 999, 1000, 2000}
LargeImages == {Raw(w, h, "RGB") : w \in LargeSides, h \in LargeSides}
\* extreme aspect ratios
ThinImages == {Raw(2000, 1, "L"), Raw(2, 2000, "RGBA"), Raw(2000, 4, "RGB")}
Images == GridImages \cup LargeImages \cup ThinImages \cup {Garbage}

MaxDimensions == 0..MaxDim \cup {DefaultMaxDimension}
TargetSizesKb == {0, DefaultTargetSizeKb, 140}
\* (min_quality, max_quality): the defaults, a gap that is no multiple of 5,
\* an empty range and an inverted one
QualityRanges ==
    {<<DefaultMinQuality, DefaultMaxQuality>>, <<DefaultMinQuality, 77>>,
     <<DefaultMinQuality, DefaultMinQuality>>, <<DefaultMinQuality, 70>>}

\* byte sizes an encode can produce: a tiny file, two below the default target
\* (the 40 KiB of Scenario D, and 90 KiB), one at the target, at the ceiling,
\* one byte above it, and well above
CodecSizes ==
    {1024, 40 * 1024, 90 * 1024, 100 * 1024, Ceiling, Ceiling + 1, 200 * 1024}

ArgSets(images, dims, targets, ranges) ==
    {[image |-> i, max_dimension |-> m, target_size_kb |-> t,
      min_quality |-> r[1], max_quality |-> r[2]] :
        i \in images, m \in dims, t \in targets, r \in ranges}

NoArgs == [image |-> Garbage, max_dimension |-> 0, target_size_kb |-> 0,
           min_quality |-> 0, max_quality |-> 0]

(***************************************************************************)
(* State.                                                                  *)
(***************************************************************************)
VARIABLES
    pc,        \* where each invocation of compress_image stands
    args,      \* its parameters
    frame,     \* its local variables: img, max_dimensions, quality, output
    encodes,   \* history: every img.save it made (stage, quality, size, bytes)
    codec,     \* the JPEG encoder, as far as it has been observed
    running,   \* the coroutine the event loop is running
    upc,       \* where the upload request stands
    upload,    \* the upload request's parameters
    files,     \* TEMP_DIR: the image_ids with a file written
    collection \* MongoDB: the records inserted

vars == <<pc, args, frame, encodes, codec, running, upc, upload, files, collection>>
engineVars == <<pc, args, frame, encodes, codec, running>>
uploadVars == <<upc, upload, files, collection>>

NoImg == [size |-> <<0, 0>>, mode |-> None]
NoResult == [size |-> <<0, 0>>, original_size |-> 0, compressed_size |-> 0]
EmptyFrame ==
    [img |-> NoImg, original_size |-> 0, max_dimensions |-> <<0, 0>>,
     new_dimensions |-> <<0, 0>>,
     quality |-> 0, output |-> 0, result |-> NoResult, raised |-> None]

\* all invocations in one frame, as if the locals were module-level globals
FrameShared(c) == "c1"

\* each invocation of the coroutine has its own locals
FrameOf(c) == c

Local(c) == frame[FrameOf(c)]

(***************************************************************************)
(* The encoder.  img.save(output, format='JPEG', quality=q, optimize=True) *)
(* is a function of the pixel buffer and q; the model learns it one encode *)
(* at a time.  For one buffer the size does not decrease as q grows, and   *)
(* grows by at most StepGain per step of 5 in quality; a shrink of the     *)
(* buffer changes the size at one quality by at most StepGain; and no      *)
(* encoding is larger than the buffer's raw pixels plus a header.          *)
(***************************************************************************)
MaxEncodedBytes(size) == JpegHeaderBytes + RawBytesPerPixel * size[1] * size[2]

RECURSIVE Power(_, _)
Power(b, n) == IF n <= 0 THEN 1 ELSE b * Power(b, n - 1)

\* the factor by which the encoded size may grow from quality q1 to quality q2
Rise(q1, q2) ==
    IF q2 <= q1 THEN 1
    ELSE Power(StepGain, (q2 - q1 + QualityStep - 1) \div QualityStep)

SizeGain(e, size) == IF e.size = size THEN 1 ELSE StepGain

\* the factor by which an encoding of size at q may exceed observation e
Gain(e, size, q) == Rise(e.quality, q) * SizeGain(e, size)

\* the factor by which observation e may exceed an encoding of size at q
Loss(e, size, q) == Rise(q, e.quality) * SizeGain(e, size)

CodecAllows(image, size, q, bytes) ==
    /\ bytes <= MaxEncodedBytes(size)
    /\ \A e \in codec :
        e.image = image =>
            /\ bytes <= e.bytes * Gain(e, size, q)
            /\ e.bytes <= bytes * Loss(e, size, q)

\* the sizes tried for an encode: the size classes, and the largest sizes the
\* encodes already made of the image leave room for
EncodedSizes(image, size, q) ==
    CodecSizes
      \cup {e.bytes : e \in {o \in codec : o.image = image}}
      \cup {e.bytes * Gain(e, size, q) : e \in {o \in codec : o.image = image}}

Observe(image, size, q, bytes) ==
    codec \cup {[image |-> image, size |-> size, quality |-> q, bytes |-> bytes]}

Saved(c, stage, q, size, bytes) ==
    Append(encodes[c], [stage |-> stage, quality |-> q, size |-> size, bytes |-> bytes])

\* the test of line 66 against the target instead of the ceiling
LoopCondAboveTarget(c) ==
    /\ Local(c).output > args[c].target_size_kb * 1024
    /\ Local(c).quality > args[c].min_quality

\* "while output.tell() > 150 * 1024 and quality > min_quality"
LoopCond(c) ==
    Local(c).output > Ceiling /\ Local(c).quality > args[c].min_quality

\* the test of line 73 with >= for >
ShrinkCondAtCeiling(c) == Local(c).output >= Ceiling

\* "if output.tell() > 150 * 1024"
ShrinkCond(c) == Local(c).output > Ceiling

\* the test of line 81 without its second half
BoostCondAnyQuality(c) == Local(c).output < args[c].target_size_kb * 1024

\* "if output.tell() < target_size_kb * 1024 and quality < max_quality"
BoostCond(c) ==
    /\ Local(c).output < args[c].target_size_kb * 1024
    /\ Local(c).quality < args[c].max_quality

Raise(c, what) ==
    /\ pc' = [pc EXCEPT ![c] = "error"]
    /\ frame' = [frame EXCEPT ![FrameOf(c)].raised = what]
    /\ running' = None

(***************************************************************************)
(* compress_image, one action per step.                                    *)
(***************************************************************************)
\* line 38: content = await input_image.read()  (the one suspension point)
Read(c) ==
    /\ pc[c] = "read"
    /\ running = None
    /\ pc' = [pc EXCEPT ![c] = "decode"]
    /\ UNCHANGED <<args, frame, encodes, codec, running, uploadVars>>

\* lines 39-44: original_size, Image.open, convert to RGB; from here to the
\* return the coroutine does not suspend
Decode(c) ==
    /\ pc[c] = "decode"
    /\ running = None
    /\ IF args[c].image.ok
       THEN /\ frame' = [frame EXCEPT ![FrameOf(c)] =
                           [EmptyFrame EXCEPT
                              !.original_size = args[c].image.len,
                              !.img = [size |-> <<args[c].image.w, args[c].image.h>>,
                                       mode |-> "RGB"]]]
            /\ pc' = [pc EXCEPT ![c] = "downscale"]
            /\ running' = c
       ELSE /\ frame' = [frame EXCEPT ![FrameOf(c)] =
                           [EmptyFrame EXCEPT !.original_size = args[c].image.len,
                                              !.raised = "UnidentifiedImageError"]]
            /\ pc' = [pc EXCEPT ![c] = "error"]
            /\ running' = None
    /\ UNCHANGED <<args, encodes, codec, uploadVars>>

\* lines 47-58: the bounding box and img.thumbnail(max_dimensions)
Downscale(c) ==
    /\ pc[c] = "downscale"
    /\ running = c
    /\ LET box == Box(args[c].max_dimension, Local(c).img.size)
           new == Thumbnail(box, Local(c).img.size)
       IN  IF new = Err
           THEN /\ pc' = [pc EXCEPT ![c] = "error"]
                /\ frame' = [frame EXCEPT ![FrameOf(c)].max_dimensions = box,
                                          ![FrameOf(c)].raised = "thumbnail"]
                /\ running' = None
           ELSE /\ pc' = [pc EXCEPT ![c] = "save"]
                /\ frame' = [frame EXCEPT ![FrameOf(c)].max_dimensions = box,
                                          ![FrameOf(c)].img.size = new]
                /\ UNCHANGED running
    /\ UNCHANGED <<args, encodes, codec, uploadVars>>

\* lines 61-63: quality = max_quality and the first encode
FirstSave(c) ==
    /\ pc[c] = "save"
    /\ running = c
    /\ \E bytes \in EncodedSizes(args[c].image, Local(c).img.size, args[c].max_quality) :
        /\ CodecAllows(args[c].image, Local(c).img.size, args[c].max_quality, bytes)
        /\ codec' = Observe(args[c].image, Local(c).img.size, args[c].max_quality, bytes)
        /\ encodes' = [encodes EXCEPT ![c] =
              Saved(c, "Init", args[c].max_quality, Local(c).img.size, bytes)]
        /\ frame' = [frame EXCEPT ![FrameOf(c)].quality = args[c].max_quality,
                                  ![FrameOf(c)].output = bytes]
    /\ pc' = [pc EXCEPT ![c] = "reduce"]
    /\ UNCHANGED <<args, running, uploadVars>>

\* lines 66-70: one iteration of the quality-reduction loop
QualityReduce(c) ==
    /\ pc[c] = "reduce"
    /\ running = c
    /\ LoopCond(c)
    /\ LET q == Local(c).quality - QualityStep
       IN  \E bytes \in EncodedSizes(args[c].image, Local(c).img.size, q) :
            /\ CodecAllows(args[c].image, Local(c).img.size, q, bytes)
            /\ codec' = Observe(args[c].image, Local(c).img.size, q, bytes)
            /\ encodes' = [encodes EXCEPT ![c] =
                  Saved(c, "QualityReduce", q, Local(c).img.size, bytes)]
            /\ frame' = [frame EXCEPT ![FrameOf(c)].quality = q,
                                      ![FrameOf(c)].output = bytes]
    /\ UNCHANGED <<pc, args, running, uploadVars>>

\* lines 73-78: the loop has ended above the ceiling: shrink the box by 0.9,
\* thumbnail again, encode at min_quality (quality itself is not assigned)
DimShrink(c) ==
    /\ pc[c] = "reduce"
    /\ running = c
    /\ ~LoopCond(c)
    /\ ShrinkCond(c)
    /\ LET new_dimensions == ShrinkBox(Local(c).max_dimensions)
           new == Thumbnail(new_dimensions, Local(c).img.size)
       IN  IF new = Err
           THEN /\ pc' = [pc EXCEPT ![c] = "error"]
                /\ frame' = [frame EXCEPT ![FrameOf(c)].new_dimensions = new_dimensions,
                                          ![FrameOf(c)].raised = "shrink thumbnail"]
                /\ running' = None
                /\ UNCHANGED <<encodes, codec>>
           ELSE /\ \E bytes \in EncodedSizes(args[c].image, new, args[c].min_quality) :
                    /\ CodecAllows(args[c].image, new, args[c].min_quality, bytes)
                    /\ codec' = Observe(args[c].image, new, args[c].min_quality, bytes)
                    /\ encodes' = [encodes EXCEPT ![c] =
                          Saved(c, "DimShrink", args[c].min_quality, new, bytes)]
                    /\ frame' = [frame EXCEPT ![FrameOf(c)].new_dimensions = new_dimensions,
                                              ![FrameOf(c)].img.size = new,
                                              ![FrameOf(c)].output = bytes]
                /\ pc' = [pc EXCEPT ![c] = "boost"]
                /\ UNCHANGED running
    /\ UNCHANGED <<args, uploadVars>>

\* line 73, condition false: the loop has ended at or below the ceiling
SkipShrink(c) ==
    /\ pc[c] = "reduce"
    /\ running = c
    /\ ~LoopCond(c)
    /\ ~ShrinkCond(c)
    /\ pc' = [pc EXCEPT ![c] = "boost"]
    /\ UNCHANGED <<args, frame, encodes, codec, running, uploadVars>>

\* lines 81-85: below the target with quality to spare: raise quality, encode
QualityBoost(c) ==
    /\ pc[c] = "boost"
    /\ running = c
    /\ BoostCond(c)
    /\ LET q == Min2(Local(c).quality + BoostStep, args[c].max_quality)
       IN  \E bytes \in EncodedSizes(args[c].image, Local(c).img.size, q) :
            /\ CodecAllows(args[c].image, Local(c).img.size, q, bytes)
            /\ codec' = Observe(args[c].image, Local(c).img.size, q, bytes)
            /\ encodes' = [encodes EXCEPT ![c] =
                  Saved(c, "QualityBoost", q, Local(c).img.size, bytes)]
            /\ frame' = [frame EXCEPT ![FrameOf(c)].quality = q,
                                      ![FrameOf(c)].output = bytes]
    /\ pc' = [pc EXCEPT ![c] = "return"]
    /\ UNCHANGED <<args, running, uploadVars>>

\* line 81, condition false
SkipBoost(c) ==
    /\ pc[c] = "boost"
    /\ running = c
    /\ ~BoostCond(c)
    /\ pc' = [pc EXCEPT ![c] = "return"]
    /\ UNCHANGED <<args, frame, encodes, codec, running, uploadVars>>

\* lines 87-89: return output, img.size, original_size, compressed_size
Return(c) ==
    /\ pc[c] = "return"
    /\ running = c
    /\ frame' = [frame EXCEPT ![FrameOf(c)].result =
          [size |-> Local(c).img.size, original_size |-> Local(c).original_size,
           compressed_size |-> Local(c).output]]
    /\ pc' = [pc EXCEPT ![c] = "done"]
    /\ running' = None
    /\ UNCHANGED <<args, encodes, codec, uploadVars>>

\* img.save raises (the encoder cannot produce output): at any of the saves
SaveFails(c) ==
    /\ running = c
    /\ \/ pc[c] = "save"
       \/ pc[c] = "reduce" /\ ShrinkCond(c)
       \/ pc[c] = "boost" /\ BoostCond(c)
    /\ Raise(c, "save")
    /\ UNCHANGED <<args, encodes, codec, uploadVars>>

(***************************************************************************)
(* Spec: one direct call of compress_image, any parameters.                *)
(***************************************************************************)
NoUpload == [ext |-> None, max_dimension |-> 0, target_size_kb |-> 0, image |-> Garbage]

Idle ==
    /\ codec = {}
    /\ running = None
    /\ encodes = [c \in Calls |-> <<>>]
    /\ frame = [c \in Calls |-> EmptyFrame]
    /\ files = {}
    /\ collection = {}

Init ==
    /\ Idle
    /\ pc = [c \in Calls |-> IF c = "c1" THEN "read" ELSE "idle"]
    /\ \E a \in ArgSets(Images, MaxDimensions, TargetSizesKb, QualityRanges) :
          args = [c \in Calls |-> IF c = "c1" THEN a ELSE NoArgs]
    /\ upc = "idle"
    /\ upload = NoUpload

Next ==
    \/ Read("c1") \/ Decode("c1") \/ Downscale("c1") \/ FirstSave("c1")
    \/ QualityReduce("c1") \/ DimShrink("c1") \/ SkipShrink("c1")
    \/ QualityBoost("c1") \/ SkipBoost("c1") \/ Return("c1") \/ SaveFails("c1")

Spec == Init /\ [][Next]_vars

(***************************************************************************)
(* upload_image: one request.                                              *)
(***************************************************************************)
\* file.filename.lower(), for the file names tried
Lower(name) == IF name = "A.JPG" THEN "a.jpg" ELSE name

\* str.endswith(('.png', '.jpg', '.jpeg'))
EndsWithImageExt(name) == name \in {"a.png", "a.jpg", "a.jpeg"}

FileNames == {"a.png", "a.jpg", "a.jpeg", "A.JPG", "a.gif"}

\* the check is missing: every parameter passes
ParamsAnyAccepted(u) == TRUE

\* line 103: "if max_dimension <= 0 or target_size_kb <= 0" does not hold
ParamsAccepted(u) == ~(u.max_dimension <= 0 \/ u.target_size_kb <= 0)

Uploads(images, dims, targets) ==
    {[filename |-> f, max_dimension |-> m, target_size_kb |-> t, image |-> i] :
        f \in FileNames, m \in dims, t \in targets, i \in images}

\* lines 98-113: the two checks, then the call of compress_image
Validate ==
    /\ upc = "validate"
    /\ IF ~EndsWithImageExt(Lower(upload.filename))
       THEN /\ upc' = "400 Unsupported file format"
            /\ UNCHANGED <<pc, args>>
       ELSE IF ~ParamsAccepted(upload)
       THEN /\ upc' = "400 Invalid parameters"
            /\ UNCHANGED <<pc, args>>
       ELSE /\ upc' = "compress"
            /\ pc' = [pc EXCEPT !["c1"] = "read"]
            /\ args' = [args EXCEPT !["c1"] =
                  [image |-> upload.image, max_dimension |-> upload.max_dimension,
                   target_size_kb |-> upload.target_size_kb,
                   min_quality |-> DefaultMinQuality, max_quality |-> DefaultMaxQuality]]
    /\ UNCHANGED <<upload, files, collection, frame, encodes, codec, running>>

\* line 107: the await returns, or the exception of compress_image propagates
Compressed ==
    /\ upc = "compress"
    /\ pc["c1"] \in {"done", "error"}
    /\ upc' = IF pc["c1"] = "done" THEN "write" ELSE "500"
    /\ UNCHANGED <<upload, files, collection, engineVars>>

\* lines 115-122: image_id, and the compressed bytes written under TEMP_DIR
WriteFile ==
    /\ upc = "write"
    /\ files' = files \cup {"image_id"}
    /\ upc' = "insert"
    /\ UNCHANGED <<upload, collection, engineVars>>

\* lines 124-134: collection.insert_one(image_info); the sizes are recorded in
\* KB and the dimensions as text, which the model keeps as they are returned
InsertRecord ==
    /\ upc = "insert"
    /\ collection' = collection \cup
          {[image_id |-> "image_id", filename |-> upload.filename,
            original_size |-> frame["c1"].result.original_size,
            compressed_size |-> frame["c1"].result.compressed_size,
            new_dimensions |-> frame["c1"].result.size]}
    /\ upc' = "respond"
    /\ UNCHANGED <<upload, files, engineVars>>

\* lines 136-144
Respond ==
    /\ upc = "respond"
    /\ upc' = "200"
    /\ UNCHANGED <<upload, files, collection, engineVars>>

UploadImages ==
    {Raw(2000, 1000, "RGB"), Raw(300, 200, "RGBA"), Raw(480, 480, "RGB"),
     Raw(3, 2, "RGB"), Raw(2000, 1, "L"), Garbage}

InitUpload ==
    /\ Idle
    /\ pc = [c \in Calls |-> "idle"]
    /\ args = [c \in Calls |-> NoArgs]
    /\ upc = "validate"
    /\ upload \in Uploads(UploadImages, -1..MaxDim \cup {DefaultMaxDimension},
                          {0, DefaultTargetSizeKb})

NextUpload ==
    \/ Validate \/ Compressed \/ WriteFile \/ InsertRecord \/ Respond
    \/ Read("c1") \/ Decode("c1") \/ Downscale("c1") \/ FirstSave("c1")
    \/ QualityReduce("c1") \/ DimShrink("c1") \/ SkipShrink("c1")
    \/ QualityBoost("c1") \/ SkipBoost("c1") \/ Return("c1") \/ SaveFails("c1")

SpecUpload == InitUpload /\ [][NextUpload]_vars

(***************************************************************************)
(* SpecConcurrent: two invocations of compress_image on one event loop.    *)
(***************************************************************************)
ConcurrentArgs ==
    ArgSets({Raw(2000, 1000, "RGB"), Raw(480, 480, "RGB")},
            {DefaultMaxDimension}, {DefaultTargetSizeKb},
            {<<DefaultMinQuality, DefaultMaxQuality>>, <<DefaultMinQuality, 77>>})

InitConcurrent ==
    /\ Idle
    /\ pc = [c \in Calls |-> "read"]
    /\ args \in [Calls -> ConcurrentArgs]
    /\ upc = "idle"
    /\ upload = NoUpload

NextConcurrent ==
    \E c \in Calls :
        \/ Read(c) \/ Decode(c) \/ Downscale(c) \/ FirstSave(c) \/ QualityReduce(c)
        \/ DimShrink(c) \/ SkipShrink(c) \/ QualityBoost(c) \/ SkipBoost(c)
        \/ Return(c) \/ SaveFails(c)

SpecConcurrent == InitConcurrent /\ [][NextConcurrent]_vars

(***************************************************************************)
(* Vocabulary of the properties.                                           *)
(***************************************************************************)
Done(c) == pc[c] = "done"
Original(c) == <<args[c].image.w, args[c].image.h>>
Longest(size) == Max2(size[1], size[2])

\* CompressionConfig as the specification constrains it
ValidConfig(a) ==
    a.max_dimension > 0 /\ a.target_size_kb > 0 /\ a.min_quality <= a.max_quality

\* the quality the bytes now in output were encoded at
QualityUsed(c) == encodes[c][Len(encodes[c])].quality

RanStage(c, stage) == \E i \in 1..Len(encodes[c]) : encodes[c][i].stage = stage

InLoop(e) == e.stage \in {"Init", "QualityReduce"}
\* the encodes of Step 4: the first one and those of the loop
LoopEncodes(c) == SelectSeq(encodes[c], InLoop)
LoopEnd(c) == LoopEncodes(c)[Len(LoopEncodes(c))]

(***************************************************************************)
(* C1: for min_quality <= max_quality (and the other parameters positive), *)
(* the quality the returned bytes were encoded at lies in                  *)
(* [min_quality, max_quality].  Refuted: with max_quality - min_quality no *)
(* multiple of 5 the loop steps below min_quality and its encode can be    *)
(* the one returned.                                                       *)
(***************************************************************************)
C1_QualityUsedInRange ==
    \A c \in Calls :
        (Done(c) /\ ValidConfig(args[c])) =>
            /\ args[c].min_quality <= QualityUsed(c)
            /\ QualityUsed(c) <= args[c].max_quality

(***************************************************************************)
(* C2: an image with max(w, h) > max_dimension is returned with its longer *)
(* edge equal to max_dimension.  Refuted: thumbnail rounds the longer edge *)
(* down when that is closer to the aspect ratio, and DimShrink shrinks it. *)
(***************************************************************************)
C2_LongerEdgeEqualsMaxDimension ==
    \A c \in Calls :
        (Done(c) /\ ValidConfig(args[c])
                 /\ Longest(Original(c)) > args[c].max_dimension) =>
            Longest(frame[c].result.size) = args[c].max_dimension

(***************************************************************************)
(* C3: an image with max(w, h) <= max_dimension is returned with its own   *)
(* dimensions, whichever stages ran.  Refuted by DimShrink, whose box is   *)
(* 0.9 of the requested box and can be smaller than the image.             *)
(***************************************************************************)
C3_SmallImageKeepsDimensions ==
    \A c \in Calls :
        (Done(c) /\ ValidConfig(args[c])
                 /\ Longest(Original(c)) <= args[c].max_dimension) =>
            frame[c].result.size = Original(c)

\* C3 as amended: the dimensions are the image's own unless DimShrink ran, and
\* no stage ever enlarges the image
C3_SmallImageKeepsDimensionsUnlessShrunk ==
    \A c \in Calls :
        (Done(c) /\ ValidConfig(args[c])
                 /\ Longest(Original(c)) <= args[c].max_dimension) =>
            /\ ~RanStage(c, "DimShrink") => frame[c].result.size = Original(c)
            /\ frame[c].result.size[1] <= Original(c)[1]
            /\ frame[c].result.size[2] <= Original(c)[2]

\* Scenario B: 300x200 under the default configuration comes back 300x200
C3_Witness ==
    \E c \in Calls :
        /\ Done(c)
        /\ Original(c) = <<300, 200>>
        /\ args[c].max_dimension = DefaultMaxDimension
        /\ args[c].target_size_kb = DefaultTargetSizeKb
        /\ args[c].min_quality = DefaultMinQuality
        /\ args[c].max_quality = DefaultMaxQuality
        /\ RanStage(c, "QualityReduce")
        /\ ~RanStage(c, "DimShrink")
        /\ frame[c].result.size = <<300, 200>>

(***************************************************************************)
(* C4: when the quality-reduction loop ends at or below 150 KiB, the size  *)
(* returned is at or below 150 KiB (the encoder's size does not decrease   *)
(* with quality).  Refuted: QualityBoost re-encodes at a quality the loop  *)
(* has already found above the ceiling.                                    *)
(***************************************************************************)
C4_CeilingKeptAfterLoop ==
    \A c \in Calls :
        (Done(c) /\ ValidConfig(args[c]) /\ LoopEnd(c).bytes <= Ceiling) =>
            frame[c].result.compressed_size <= Ceiling

(***************************************************************************)
(* C5: for a valid configuration, each encode of the reduction loop        *)
(* is at a quality 5 below the previous one, and none is below             *)
(* min_quality.  Refuted in its second half: the loop tests                *)
(* quality > min_quality before subtracting 5.                             *)
(***************************************************************************)
C5_StepsOfFiveNotBelowMin ==
    \A c \in Calls :
        ValidConfig(args[c]) =>
            \A i \in 1..Len(LoopEncodes(c)) :
                /\ LoopEncodes(c)[i].quality >= args[c].min_quality
                /\ i > 1 => LoopEncodes(c)[i].quality
                              = LoopEncodes(c)[i - 1].quality - QualityStep

(***************************************************************************)
(* C6: the longest edge of the returned image is at most max_dimension.    *)
(***************************************************************************)
C6_LongestEdgeCapped ==
    \A c \in Calls :
        Done(c) => Longest(frame[c].result.size) <= args[c].max_dimension

\* a larger image, downscaled by Step 3 and returned
C6_Witness ==
    \E c \in Calls :
        /\ Done(c)
        /\ Longest(Original(c)) > args[c].max_dimension
        /\ frame[c].result.size # Original(c)
        /\ Longest(frame[c].result.size) = args[c].max_dimension

(***************************************************************************)
(* C7: when the image was resized, the returned dimensions have the        *)
(* decoded image's aspect ratio within one pixel on an axis: the height is *)
(* within 1 of width * h / w, or the width within 1 of height * w / h.     *)
(***************************************************************************)
AspectWithinOne(size, orig) ==
    \/ Abs(size[2] * orig[1] - size[1] * orig[2]) <= orig[1]
    \/ Abs(size[1] * orig[2] - size[2] * orig[1]) <= orig[2]

C7_AspectWithinOnePixel ==
    \A c \in Calls :
        (Done(c) /\ frame[c].result.size # Original(c)) =>
            AspectWithinOne(frame[c].result.size, Original(c))

\* resized by Step 3 and again by Step 5, and the ratio is not exact
C7_Witness ==
    \E c \in Calls :
        /\ Done(c)
        /\ RanStage(c, "DimShrink")
        /\ encodes[c][1].size # Original(c)
        /\ frame[c].result.size # encodes[c][1].size
        /\ frame[c].result.size[2] * Original(c)[1]
             # frame[c].result.size[1] * Original(c)[2]

(***************************************************************************)
(* C8 (SpecUpload): the file and the record are written only after         *)
(* compress_image has returned in the request; on a rejected extension or  *)
(* parameter the engine is not invoked; on a failed decode, resize or      *)
(* encode nothing is written.                                              *)
(***************************************************************************)
C8_PersistOnlyAfterCompress ==
    /\ (files # {} \/ collection # {}) => (pc["c1"] = "done" /\ upc # "compress")
    /\ (upc # "idle" /\ (\/ ~EndsWithImageExt(Lower(upload.filename))
                         \/ upload.max_dimension <= 0
                         \/ upload.target_size_kb <= 0)) =>
            (pc["c1"] = "idle" /\ files = {} /\ collection = {})
    /\ pc["c1"] = "error" => (files = {} /\ collection = {})

\* Scenario C: undecodable bytes; the request has failed and nothing is written
C8_Witness ==
    /\ upc = "500"
    /\ frame["c1"].raised = "UnidentifiedImageError"
    /\ files = {}
    /\ collection = {}

(***************************************************************************)
(* C9: compress_image called with max_dimension <= 0, target_size_kb <= 0  *)
(* or max_quality < min_quality is rejected before any decode, resize or   *)
(* encode.  Refuted: compress_image checks nothing.                        *)
(***************************************************************************)
C9_InvalidConfigRejectedAtEntry ==
    \A c \in Calls :
        ~ValidConfig(args[c]) =>
            /\ frame[c].img = NoImg
            /\ encodes[c] = <<>>
            /\ pc[c] \in {"idle", "read", "decode", "error"}

(***************************************************************************)
(* C10 (SpecConcurrent): two invocations with the same bytes and           *)
(* configuration return the same size, quality and dimensions, however     *)
(* they interleave at the await; and no step changes the parameters,       *)
(* locals or history of more than one invocation.                          *)
(***************************************************************************)
Own(c) == <<pc[c], args[c], frame[c], encodes[c]>>

Deterministic ==
    \A c, d \in Calls :
        (Done(c) /\ Done(d) /\ args[c] = args[d]) =>
            /\ frame[c].result = frame[d].result
            /\ frame[c].result.size # <<0, 0>>
            /\ QualityUsed(c) = QualityUsed(d)

C10_IsolatedAndDeterministic ==
    [][/\ \A c, d \in Calls : c # d => (Own(c)' = Own(c) \/ Own(d)' = Own(d))
       /\ Deterministic']_vars

\* both have returned the same result for the same input, after awaiting
\* together and running all three stages
C10_Witness ==
    /\ Done("c1") /\ Done("c2")
    /\ args["c1"] = args["c2"]
    /\ RanStage("c2", "DimShrink") /\ RanStage("c2", "QualityBoost")
    /\ frame["c1"].result = frame["c2"].result

(***************************************************************************)
(* C11: for a valid configuration, when DimShrink has run the tracked      *)
(* quality is min_quality and the bytes in output are one encode of the    *)
(* shrunk buffer at min_quality; so a QualityBoost that follows encodes at *)
(* min(min_quality + 10, max_quality).  Refuted: DimShrink passes          *)
(* min_quality to img.save without assigning quality, which the loop has   *)
(* left below min_quality when max_quality - min_quality is no multiple    *)
(* of 5 (C5).                                                              *)
(***************************************************************************)
StageCount(c, stage) ==
    Len(SelectSeq(encodes[c], LAMBDA e : e.stage = stage))

LastEncode(c) == encodes[c][Len(encodes[c])]

\* DimShrink has just run in c
AfterDimShrink(c) ==
    pc[c] = "boost" /\ RanStage(c, "DimShrink")

C11_QualityIsMinAfterDimShrink ==
    \A c \in Calls :
        ValidConfig(args[c]) =>
            /\ AfterDimShrink(c) =>
                /\ frame[c].quality = args[c].min_quality
                /\ frame[c].output = LastEncode(c).bytes
                /\ LastEncode(c).stage = "DimShrink"
                /\ LastEncode(c).quality = args[c].min_quality
                /\ LastEncode(c).size = frame[c].img.size
                /\ StageCount(c, "DimShrink") = 1
            /\ (Done(c) /\ RanStage(c, "DimShrink") /\ RanStage(c, "QualityBoost")) =>
                QualityUsed(c) = Min2(args[c].min_quality + BoostStep,
                                      args[c].max_quality)

(***************************************************************************)
(* C12: when DimShrink runs on a buffer of dimensions (cw, ch), the box it *)
(* hands to the resizer is (round(0.9 * cw), round(0.9 * ch)): each axis   *)
(* the integer nearest to 0.9 of the buffer's own dimension (either        *)
(* neighbour on a tie).  Refuted: the box is int(0.9 * dim) of the         *)
(* requested box max_dimensions of lines 47-55.                            *)
(***************************************************************************)
\* b is 0.9 * dim rounded to the nearest integer
IsRoundOfNineTenths(b, dim) == Abs(10 * b - 9 * dim) <= 5

\* DimShrink has computed its box and called img.thumbnail with it
ShrinkAttempted(c) ==
    RanStage(c, "DimShrink") \/ frame[c].raised = "shrink thumbnail"

C12_ShrinkBoxFromAchievedDimensions ==
    \A c \in Calls :
        (ValidConfig(args[c]) /\ ShrinkAttempted(c)) =>
            /\ IsRoundOfNineTenths(frame[c].new_dimensions[1], LoopEnd(c).size[1])
            /\ IsRoundOfNineTenths(frame[c].new_dimensions[2], LoopEnd(c).size[2])

(***************************************************************************)
(* C13: DimShrink runs exactly when the reduction loop has ended above     *)
(* 150 KiB; it runs at most once, resizes once and encodes once; and no    *)
(* encode of the reduction loop follows it, even when its own output is    *)
(* still above 150 KiB.                                                    *)
(***************************************************************************)
\* the test of line 73 is behind c
ShrinkDecided(c) == pc[c] \in {"boost", "return", "done"}

C13_DimShrinkIffLoopEndsAboveCeiling ==
    \A c \in Calls :
        /\ ShrinkDecided(c) =>
              (RanStage(c, "DimShrink") <=> LoopEnd(c).bytes > Ceiling)
        /\ StageCount(c, "DimShrink") <= 1
        /\ \A i \in 1..Len(encodes[c]) :
              encodes[c][i].stage = "DimShrink" =>
                /\ pc[c] # "reduce"
                /\ encodes[c][i].size
                     = Thumbnail(frame[c].new_dimensions, LoopEnd(c).size)
                /\ \A j \in (i + 1)..Len(encodes[c]) :
                      encodes[c][j].stage = "QualityBoost"

\* DimShrink ran after the loop, shrank the buffer, left it above 150 KiB, and
\* the call returned that
C13_Witness ==
    \E c \in Calls :
        /\ Done(c)
        /\ RanStage(c, "QualityReduce")
        /\ LastEncode(c).stage = "DimShrink"
        /\ LastEncode(c).size # LoopEnd(c).size
        /\ LastEncode(c).bytes > Ceiling
        /\ frame[c].result.compressed_size > Ceiling

(***************************************************************************)
(* C14: QualityBoost runs exactly when the size left by the stage before   *)
(* it is below target_size_kb * 1024 and quality is below max_quality; it  *)
(* runs at most once, sets quality to min(quality + 10, max_quality) and   *)
(* encodes the current buffer once, last of all.  With quality already at  *)
(* max_quality nothing is encoded again: bytes, dimensions and quality are *)
(* those the stage before left.                                            *)
(***************************************************************************)
\* the test of line 81 is behind c
BoostDecided(c) == pc[c] \in {"return", "done"}

NotBoost(e) == e.stage # "QualityBoost"
\* the encode of the stage that ran last before the test of line 81
BeforeBoost(c) ==
    SelectSeq(encodes[c], NotBoost)[Len(SelectSeq(encodes[c], NotBoost))]

C14_QualityBoostIffBelowTargetWithHeadroom ==
    \A c \in Calls :
        /\ pc[c] \in {"reduce", "boost"} => frame[c].quality = LoopEnd(c).quality
        /\ StageCount(c, "QualityBoost") <= 1
        /\ BoostDecided(c) =>
            /\ RanStage(c, "QualityBoost") <=>
                  /\ BeforeBoost(c).bytes < args[c].target_size_kb * 1024
                  /\ LoopEnd(c).quality < args[c].max_quality
            /\ RanStage(c, "QualityBoost") =>
                  /\ LastEncode(c).stage = "QualityBoost"
                  /\ LastEncode(c).quality
                       = Min2(LoopEnd(c).quality + BoostStep, args[c].max_quality)
                  /\ LastEncode(c).size = BeforeBoost(c).size
            /\ LoopEnd(c).quality = args[c].max_quality =>
                  LastEncode(c) = BeforeBoost(c)
            /\ frame[c].quality = IF RanStage(c, "QualityBoost")
                                  THEN LastEncode(c).quality
                                  ELSE LoopEnd(c).quality
            /\ frame[c].output = LastEncode(c).bytes
            /\ frame[c].img.size = LastEncode(c).size
            /\ Done(c) =>
                  /\ frame[c].result.compressed_size = LastEncode(c).bytes
                  /\ frame[c].result.size = LastEncode(c).size

\* the loop ended at 85 below the target; the boost's 85 + 10 was capped at
\* max_quality = 90 and its encode was returned
C14_Witness ==
    \E c \in Calls :
        /\ Done(c)
        /\ args[c].min_quality = DefaultMinQuality
        /\ args[c].max_quality = DefaultMaxQuality
        /\ LoopEnd(c).quality = DefaultMaxQuality - QualityStep
        /\ BeforeBoost(c).bytes < args[c].target_size_kb * 1024
        /\ LastEncode(c).stage = "QualityBoost"
        /\ LastEncode(c).quality = DefaultMaxQuality
        /\ frame[c].result.compressed_size = LastEncode(c).bytes

(***************************************************************************)
(* C15: when the reduction loop has ended with an encoding of at most      *)
(* 150 KiB, its quality is the first of max_quality, max_quality - 5,      *)
(* max_quality - 10, ... at which the encoder gives at most 150 KiB for    *)
(* the buffer: every higher value of the sequence was encoded by the loop  *)
(* and the encoder gave more than 150 KiB for it; and all encodes of the   *)
(* loop are of a buffer of the same dimensions.                            *)
(***************************************************************************)
\* what the encoder gives for c's buffer of dimensions size at quality q
Encoded(c, size, q) ==
    {e \in codec : e.image = args[c].image /\ e.size = size /\ e.quality = q}

C15_LoopEndsAtFirstQualityUnderCeiling ==
    \A c \in Calls :
        (ShrinkDecided(c) /\ LoopEnd(c).bytes <= Ceiling) =>
            \A i \in 1..Len(LoopEncodes(c)) :
                /\ LoopEncodes(c)[i] = encodes[c][i]
                /\ LoopEncodes(c)[i].quality
                     = args[c].max_quality - QualityStep * (i - 1)
                /\ LoopEncodes(c)[i].size = LoopEncodes(c)[1].size
                /\ Encoded(c, LoopEnd(c).size, LoopEncodes(c)[i].quality) # {}
                /\ \A e \in Encoded(c, LoopEnd(c).size, LoopEncodes(c)[i].quality) :
                      /\ e.bytes = LoopEncodes(c)[i].bytes
                      /\ e.bytes > Ceiling <=> i < Len(LoopEncodes(c))

\* 90 and 85 were found above 150 KiB and the loop ended at 80
C15_Witness ==
    \E c \in Calls :
        /\ ShrinkDecided(c)
        /\ Len(LoopEncodes(c)) = 3
        /\ LoopEncodes(c)[1].bytes > Ceiling
        /\ LoopEncodes(c)[2].bytes > Ceiling
        /\ LoopEnd(c).bytes <= Ceiling
        /\ LoopEnd(c).quality = args[c].max_quality - 2 * QualityStep
        /\ ~RanStage(c, "DimShrink")

(***************************************************************************)
(* SpecLive: one direct call of compress_image with the default            *)
(* max_dimension, a positive target and any quality range, on images of    *)
(* ordinary and of extreme aspect ratio; the encoder does not              *)
(* fail.  The event loop resumes the coroutine after its await and the     *)
(* interpreter runs it on: weak fairness on its steps.                     *)
(***************************************************************************)
LiveImages ==
    {Raw(2000, 1000, "RGB"), Raw(480, 480, "RGB"), Raw(2000, 4, "RGB"),
     Raw(2000, 1, "L"), Garbage}

InitLive ==
    /\ Idle
    /\ pc = [c \in Calls |-> IF c = "c1" THEN "read" ELSE "idle"]
    /\ \E a \in ArgSets(LiveImages, {DefaultMaxDimension}, TargetSizesKb \ {0},
                        QualityRanges) :
          args = [c \in Calls |-> IF c = "c1" THEN a ELSE NoArgs]
    /\ upc = "idle"
    /\ upload = NoUpload

NextLive ==
    \/ Read("c1") \/ Decode("c1") \/ Downscale("c1") \/ FirstSave("c1")
    \/ QualityReduce("c1") \/ DimShrink("c1") \/ SkipShrink("c1")
    \/ QualityBoost("c1") \/ SkipBoost("c1") \/ Return("c1")

SpecLive == InitLive /\ [][NextLive]_vars /\ WF_vars(NextLive)

(***************************************************************************)
(* C16 (SpecLive): every call on a decodable image reaches its return, for *)
(* every quality range (max_quality <= min_quality included), and makes at *)
(* most 1 + ceil((max_quality - min_quality) / 5) + 2 encodes.  Refuted:   *)
(* img.thumbnail raises when a component of the box is 0 (C17), and the    *)
(* call then never returns.                                                *)
(***************************************************************************)
\* ceil(a / b) for b > 0
CeilDiv(a, b) == -((-a) \div b)

EncodeBound(c) ==
    1 + CeilDiv(args[c].max_quality - args[c].min_quality, QualityStep) + 2

Called(c) == pc[c] # "idle"

C16_ReachesDoneWithinEncodeBound ==
    /\ [](\A c \in Calls : Called(c) => Len(encodes[c]) <= EncodeBound(c))
    /\ \A c \in Calls : (Called(c) /\ args[c].image.ok) ~> Done(c)

(***************************************************************************)
(* C17: for a decoded image with w >= 1, h >= 1 and a valid configuration  *)
(* (max_dimension >= 1),                                                   *)
(* both components of every box handed to img.thumbnail (max_dimensions of *)
(* lines 47-58 and new_dimensions of lines 74-75) are at least 1, and so   *)
(* are both dimensions returned.  Refuted: int() floors the short side of  *)
(* the box to 0 when the aspect ratio exceeds max_dimension.               *)
(***************************************************************************)
\* img.thumbnail(max_dimensions) of line 58 has been called
DownscaleAttempted(c) ==
    \/ pc[c] \in {"save", "reduce", "boost", "return", "done"}
    \/ frame[c].raised \in {"thumbnail", "shrink thumbnail", "save"}

C17_BoxComponentsAtLeastOne ==
    \A c \in Calls :
        (args[c].image.ok /\ args[c].image.w >= 1 /\ args[c].image.h >= 1
                          /\ ValidConfig(args[c])) =>
            /\ DownscaleAttempted(c) =>
                  (frame[c].max_dimensions[1] >= 1 /\ frame[c].max_dimensions[2] >= 1)
            /\ ShrinkAttempted(c) =>
                  (frame[c].new_dimensions[1] >= 1 /\ frame[c].new_dimensions[2] >= 1)
            /\ Done(c) =>
                  (frame[c].result.size[1] >= 1 /\ frame[c].result.size[2] >= 1)
====
